---- MODULE Spec2Model ----
(***************************************************************************)
(* Equity data connectors (src/connectors.py): the sliding-window          *)
(* RateLimiter, the retry_with_backoff decorator, the provider             *)
(* fetch_ohlcv bodies and the fetch_with_fallback orchestrator.            *)
(*                                                                         *)
(* Time is counted in ticks of 0.1 s, the resolution of the limiter's      *)
(* safety margin: one second is 10 ticks.                                  *)
(***************************************************************************)
EXTENDS Integers, Sequences, FiniteSets, TLC

(***************************************************************************)
(* Bounds of the model.                                                    *)
(***************************************************************************)
MaxN == 2
MaxWindowSeconds == 1
MaxCalls == 4
MaxOversleep == 1
MaxRetriesBound == 3
MaxBaseDelay == 2
MaxBars == 2
MaxConfigured == 3
MaxThreadCalls == 2
MaxFetches == 2
MaxLiveConfigured == 2

(***************************************************************************)
(* Program constants.                                                      *)
(***************************************************************************)
SafetyMargin == 1

VARIABLES
    \* ---- RateLimiter under test (SpecRL) ----
    requests_per_window,   \* RateLimiter.requests_per_window
    window_seconds,        \* RateLimiter.window_seconds
    request_times,         \* RateLimiter._request_times : key -> list of timestamps
    clock,                 \* time.time(), in ticks
    released,              \* per key, the times at which wait_if_needed returned
    lastCall,              \* what the most recent wait_if_needed call saw and did
    ncalls,                \* number of wait_if_needed calls made
    gapped,                \* TRUE when time has passed since the last call
    \* ---- two threads sharing one RateLimiter (SpecThreads) ----
    present,               \* the keys of RateLimiter._request_times
    threads,               \* per thread: where it is in wait_if_needed, and its locals
    tdone,                 \* the timestamps the completed calls set out to record
    \* ---- retry_with_backoff wrapper ----
    max_retries,           \* decorator argument
    base_delay,            \* decorator argument, in ticks
    attempt,               \* the loop variable of wrapper
    wpc,                   \* where wrapper is: "start", "call", "returned", "raised"
    calls,                 \* number of times func has been invoked
    delays,                \* the time.sleep(delay) durations, in order
    wresult,               \* the value wrapper returned
    wraised,               \* the call whose fault wrapper raised (0: none)
    op,                    \* the wrapped operation of SpecRetry
    \* ---- one provider's response parsing (SpecParse) ----
    pconn,                 \* the connector whose fetch_ohlcv parses
    pbars,                 \* the bars of the response, in response order
    plookback,             \* lookback_days
    pnow,                  \* datetime.now(), as <<day, slot>>
    presult,               \* what the parsing loop produced
    \* ---- the process: environment, singletons, fetch_with_fallback ----
    YFINANCE_AVAILABLE,    \* whether `import yfinance` succeeded
    env,                   \* the API key environment variables, "" when unset
    limiters,              \* connector -> its rate_limiter._request_times
    requests,              \* connector -> outbound requests issued so far
    ticker,                \* argument of fetch_with_fallback
    interval,              \* argument of fetch_with_fallback
    fpc,                   \* where fetch_with_fallback is
    connectors,            \* its local list, from get_available_connectors()
    idx,                   \* position of the for loop in connectors
    result,                \* the list it returned
    escaped,               \* TRUE when an exception left fetch_with_fallback
    outcomes,              \* per position visited: skipped, raised, or returned what
    invoked,               \* the connectors whose fetch_ohlcv was called, in order
    lastResp,              \* kind of the latest response within the current fetch_ohlcv
    tfaults,               \* transport faults within the current fetch_ohlcv
    \* ---- connector instances and their direct use ----
    api_keys,              \* connector -> the api_key attribute of its instance
    listing,               \* what main's get_available_connectors() returned
    inst,                  \* the connector whose instance is used directly
    fetches,               \* direct fetch_ohlcv calls begun on it
    gated,                 \* TRUE when the current attempt has passed wait_if_needed
    gates,                 \* wait_if_needed calls made by the current fetch_ohlcv
    sent,                  \* outbound requests issued by the current fetch_ohlcv
    hist0,                 \* the limiter history when the current fetch_ohlcv began
    clock0,                \* the time when the current fetch_ohlcv began
    avail                  \* what is_available() returned, once called

rlvars == <<requests_per_window, window_seconds, request_times, clock,
            released, lastCall, ncalls, gapped>>

tvars == <<present, threads, tdone>>

wvars == <<max_retries, base_delay, attempt, wpc, calls, delays, wresult, wraised>>

pvars == <<pconn, pbars, plookback, pnow, presult>>

ivars == <<api_keys, listing, inst, fetches, gated, gates, sent, hist0, clock0, avail>>

fvars == <<YFINANCE_AVAILABLE, env, limiters, requests, ticker, interval, fpc,
           connectors, idx, result, escaped, outcomes, invoked, lastResp, tfaults,
           ivars>>

vars == <<rlvars, tvars, wvars, op, pvars, fvars>>

Keys == {"AAPL", "TSLA"}

(***************************************************************************)
(* RateLimiter.wait_if_needed, lines 61-78.                                *)
(***************************************************************************)
WindowTicks(seconds) == seconds * 10

Cutoff(now, window) == now - window

Purge(times, cutoff) == SelectSeq(times, LAMBDA t : t > cutoff)

AtLimit(times, limit) == Len(times) >= limit

\* A sleep that stops short of the window's edge (the margin subtracted).
SleepTime_short(times, cutoff) == times[1] - cutoff - SafetyMargin

SleepTime(times, cutoff) == times[1] - cutoff + SafetyMargin

\* The duration wait_if_needed blocks: time.sleep(d) returns after at least d.
Blocked(times, cutoff, limit, over) ==
    IF AtLimit(times, limit) /\ SleepTime(times, cutoff) > 0
    THEN SleepTime(times, cutoff) + over
    ELSE 0

RecordRequest(times, now) == Append(times, now)

NoCall == [key |-> "", now |-> 0, before |-> <<>>, blocked |-> 0]

RLFresh ==
    /\ request_times = [k \in Keys |-> <<>>]
    /\ clock = 0
    /\ released = [k \in Keys |-> <<>>]
    /\ lastCall = NoCall
    /\ ncalls = 0
    /\ gapped = FALSE

RLInit ==
    /\ requests_per_window \in 1..MaxN
    /\ window_seconds \in 1..MaxWindowSeconds
    /\ RLFresh

\* No limiter under test: the specifications of the other components.
RLIdle ==
    /\ requests_per_window = 1
    /\ window_seconds = 1
    /\ RLFresh

Gaps(window) == {2, window \div 2, window + 1}

\* An arbitrary gap between two calls of the single calling thread.
Elapse(g) ==
    /\ ~gapped
    /\ ncalls < MaxCalls
    /\ clock' = clock + g
    /\ gapped' = TRUE
    /\ UNCHANGED <<requests_per_window, window_seconds, request_times,
                   released, lastCall, ncalls>>
    /\ UNCHANGED <<wvars, op, tvars, pvars, fvars>>

\* A limiter that keeps one history for all keys.
Slot_global(key) == "AAPL"

\* self._request_times[key]: the entry of the dict the call works on.
Slot(key) == key

wait_if_needed(key, over) ==
    LET now == clock
        cutoff == Cutoff(now, WindowTicks(window_seconds))
        kept == Purge(request_times[Slot(key)], cutoff)
        d == Blocked(kept, cutoff, requests_per_window, over)
    IN  /\ ncalls < MaxCalls
        /\ d = 0 => over = 0
        /\ request_times' = [request_times EXCEPT
                                ![Slot(key)] = RecordRequest(kept, now)]
        /\ clock' = clock + d
        /\ released' = [released EXCEPT ![key] = Append(@, clock + d)]
        /\ lastCall' = [key |-> key, now |-> now,
                        before |-> request_times[Slot(key)], blocked |-> d]
        /\ ncalls' = ncalls + 1
        /\ gapped' = FALSE
        /\ UNCHANGED <<requests_per_window, window_seconds>>
        /\ UNCHANGED <<wvars, op, tvars, pvars, fvars>>

RLNext ==
    \/ \E g \in Gaps(WindowTicks(window_seconds)) : Elapse(g)
    \/ \E k \in Keys, over \in 0..MaxOversleep : wait_if_needed(k, over)

\* No threads under test.
TIdle ==
    /\ present = {}
    /\ threads = <<>>
    /\ tdone = <<>>

WIdle ==
    /\ max_retries = 0
    /\ base_delay = 0
    /\ attempt = 0
    /\ wpc = "idle"
    /\ calls = 0
    /\ delays = <<>>
    /\ wresult = <<>>
    /\ wraised = 0

\* No parsing under test.
PIdle ==
    /\ pconn = ""
    /\ pbars = <<>>
    /\ plookback = 0
    /\ pnow = <<0, 0>>
    /\ presult = [kind |-> "none"]

\* No instance in direct use.
InstIdle ==
    /\ inst = ""
    /\ fetches = 0
    /\ gated = FALSE
    /\ gates = 0
    /\ sent = 0
    /\ hist0 = <<>>
    /\ clock0 = 0
    /\ avail = {}

\* No process under test.
FIdle ==
    /\ YFINANCE_AVAILABLE = FALSE
    /\ env = <<>>
    /\ limiters = <<>>
    /\ requests = <<>>
    /\ ticker = ""
    /\ interval = ""
    /\ fpc = "none"
    /\ connectors = <<>>
    /\ idx = 0
    /\ result = <<>>
    /\ escaped = FALSE
    /\ outcomes = <<>>
    /\ invoked = <<>>
    /\ lastResp = "none"
    /\ tfaults = 0
    /\ api_keys = <<>>
    /\ listing = <<>>
    /\ InstIdle

SpecRLInit == RLInit /\ TIdle /\ WIdle /\ op = <<>> /\ PIdle /\ FIdle

SpecRL == SpecRLInit /\ [][RLNext]_vars

(***************************************************************************)
(* Two threads calling wait_if_needed on one RateLimiter with the same     *)
(* key. The method takes no lock, so the threads interleave between its    *)
(* statements, and within line 69 between the evaluation of the list       *)
(* comprehension and the store of its result.                              *)
(***************************************************************************)
Threads == {1, 2}

SharedKey == "AAPL"

ThreadIdle == [pc |-> "idle", now |-> 0, kept |-> <<>>, wake |-> 0, n |-> 0]

ThreadsInit ==
    /\ requests_per_window \in 1..MaxN
    /\ window_seconds \in 1..MaxWindowSeconds
    /\ RLFresh
    /\ present = {}
    /\ threads = [t \in Threads |-> ThreadIdle]
    /\ tdone = <<>>

\* What a step of one thread leaves alone.
ThreadFrame ==
    /\ gapped' = FALSE
    /\ UNCHANGED <<requests_per_window, window_seconds, lastCall, ncalls>>
    /\ UNCHANGED <<wvars, op, pvars, fvars>>

\* Time passing while no call is in progress (within a call, time passes in
\* its sleep).
TElapse(g) ==
    /\ ~gapped
    /\ \A t \in Threads : threads[t].pc \in {"idle", "done"}
    /\ \E t \in Threads : threads[t].n < MaxThreadCalls
    /\ clock' = clock + g
    /\ gapped' = TRUE
    /\ UNCHANGED <<requests_per_window, window_seconds, request_times,
                   released, lastCall, ncalls>>
    /\ UNCHANGED <<tvars, wvars, op, pvars, fvars>>

\* now = time.time()
TNow(t) ==
    /\ threads[t].pc \in {"idle", "done"}
    /\ threads[t].n < MaxThreadCalls
    /\ threads' = [threads EXCEPT ![t].pc = "check", ![t].now = clock]
    /\ UNCHANGED <<request_times, clock, released, present, tdone>>
    /\ ThreadFrame

\* if key not in self._request_times:
TCheckKey(t) ==
    /\ threads[t].pc = "check"
    /\ threads' = [threads EXCEPT
                      ![t].pc = IF SharedKey \in present THEN "purge" ELSE "create"]
    /\ UNCHANGED <<request_times, clock, released, present, tdone>>
    /\ ThreadFrame

\* self._request_times[key] = []
TCreate(t) ==
    /\ threads[t].pc = "create"
    /\ request_times' = [request_times EXCEPT ![SharedKey] = <<>>]
    /\ present' = present \cup {SharedKey}
    /\ threads' = [threads EXCEPT ![t].pc = "purge"]
    /\ UNCHANGED <<clock, released, tdone>>
    /\ ThreadFrame

\* [t for t in self._request_times[key] if t > cutoff], into a new list
TPurgeRead(t) ==
    /\ threads[t].pc = "purge"
    /\ threads' = [threads EXCEPT
                      ![t].pc = "store",
                      ![t].kept = Purge(request_times[SharedKey],
                                        Cutoff(threads[t].now, WindowTicks(window_seconds)))]
    /\ UNCHANGED <<request_times, clock, released, present, tdone>>
    /\ ThreadFrame

\* self._request_times[key] = <that list>
TPurgeStore(t) ==
    /\ threads[t].pc = "store"
    /\ request_times' = [request_times EXCEPT ![SharedKey] = threads[t].kept]
    /\ threads' = [threads EXCEPT ![t].pc = "limit", ![t].kept = <<>>]
    /\ UNCHANGED <<clock, released, present, tdone>>
    /\ ThreadFrame

\* if len(...) >= self.requests_per_window: ... time.sleep(sleep_time)
TLimit(t) ==
    LET d == Blocked(request_times[SharedKey],
                     Cutoff(threads[t].now, WindowTicks(window_seconds)),
                     requests_per_window, 0)
    IN  /\ threads[t].pc = "limit"
        /\ threads' = [threads EXCEPT
                          ![t].pc = IF d > 0 THEN "sleep" ELSE "append",
                          ![t].wake = clock + d]
        /\ UNCHANGED <<request_times, clock, released, present, tdone>>
        /\ ThreadFrame

\* time.sleep returns, not before sleep_time has passed
TWake(t) ==
    /\ threads[t].pc = "sleep"
    /\ clock' = IF clock < threads[t].wake THEN threads[t].wake ELSE clock
    /\ threads' = [threads EXCEPT ![t].pc = "append"]
    /\ UNCHANGED <<request_times, released, present, tdone>>
    /\ ThreadFrame

\* self._request_times[key].append(now), and the call returns
TAppend(t) ==
    /\ threads[t].pc = "append"
    /\ request_times' = [request_times EXCEPT
                            ![SharedKey] = RecordRequest(@, threads[t].now)]
    /\ released' = [released EXCEPT ![SharedKey] = Append(@, clock)]
    /\ tdone' = Append(tdone, threads[t].now)
    /\ threads' = [threads EXCEPT ![t].pc = "done", ![t].n = @ + 1]
    /\ UNCHANGED <<clock, present>>
    /\ ThreadFrame

ThreadsNext ==
    \/ \E g \in Gaps(WindowTicks(window_seconds)) : TElapse(g)
    \/ \E t \in Threads : TNow(t)
    \/ \E t \in Threads : TCheckKey(t)
    \/ \E t \in Threads : TCreate(t)
    \/ \E t \in Threads : TPurgeRead(t)
    \/ \E t \in Threads : TPurgeStore(t)
    \/ \E t \in Threads : TLimit(t)
    \/ \E t \in Threads : TWake(t)
    \/ \E t \in Threads : TAppend(t)

SpecThreadsInit == ThreadsInit /\ WIdle /\ op = <<>> /\ PIdle /\ FIdle

SpecThreads == SpecThreadsInit /\ [][ThreadsNext]_vars

RECURSIVE SumSeq(_)
SumSeq(q) == IF q = <<>> THEN 0 ELSE Head(q) + SumSeq(Tail(q))

(***************************************************************************)
(* retry_with_backoff, lines 81-96.                                        *)
(***************************************************************************)
\* for attempt in range(max_retries)
InRange(a, retries) == a < retries

\* A last-attempt test that is off by one: the fault is never re-raised.
IsLastAttempt_off(a, retries) == a = retries

\* if attempt == max_retries - 1: raise
IsLastAttempt(a, retries) == a = retries - 1

\* A backoff that does not grow: the exponent is forgotten.
Backoff_flat(base, a) == base

\* delay = base_delay * (2 ** attempt)
Backoff(base, a) == base * (2 ^ a)

\* wrapper is entered: the loop runs func, or falls through to `return []`
\* when range(max_retries) is empty.
WrapperEnter ==
    /\ wpc = "start"
    /\ attempt' = 0
    /\ IF InRange(0, max_retries)
       THEN wpc' = "call" /\ wresult' = wresult
       ELSE wpc' = "returned" /\ wresult' = <<>>
    /\ UNCHANGED <<max_retries, base_delay, calls, delays, wraised>>

\* One pass of the loop body, func having ended with `outcome`:
\* [kind |-> "ok", val |-> v] (it returned v) or [kind |-> "fault"].
WrapperAttempt(outcome) ==
    /\ wpc = "call"
    /\ calls' = calls + 1
    /\ IF outcome.kind = "ok"
       THEN /\ wpc' = "returned"
            /\ wresult' = outcome.val
            /\ UNCHANGED <<attempt, delays, wraised>>
       ELSE IF IsLastAttempt(attempt, max_retries)
       THEN /\ wpc' = "raised"
            /\ wraised' = calls + 1
            /\ UNCHANGED <<attempt, delays, wresult>>
       ELSE /\ delays' = Append(delays, Backoff(base_delay, attempt))
            /\ attempt' = attempt + 1
            /\ IF InRange(attempt + 1, max_retries)
               THEN wpc' = "call" /\ wresult' = wresult
               ELSE wpc' = "returned" /\ wresult' = <<>>
            /\ UNCHANGED wraised
    /\ UNCHANGED <<max_retries, base_delay>>

(***************************************************************************)
(* SpecRetry: the wrapper around an operation that faults on its first     *)
(* op.failures invocations and returns op.value from then on.              *)
(***************************************************************************)
Values == {<<>>, <<"bar">>}

OpOutcome(n) ==
    IF n <= op.failures THEN [kind |-> "fault"] ELSE [kind |-> "ok", val |-> op.value]

RetryInit ==
    /\ max_retries \in 0..MaxRetriesBound
    /\ base_delay \in 1..MaxBaseDelay
    /\ op \in [failures : 0..(MaxRetriesBound + 1), value : Values]
    /\ attempt = 0
    /\ wpc = "start"
    /\ calls = 0
    /\ delays = <<>>
    /\ wresult = <<>>
    /\ wraised = 0

RetryEnter == WrapperEnter /\ UNCHANGED <<op, tvars, rlvars, pvars, fvars>>

RetryAttempt == WrapperAttempt(OpOutcome(calls + 1)) /\ UNCHANGED <<op, tvars, rlvars, pvars, fvars>>

RetryNext == RetryEnter \/ RetryAttempt

SpecRetryInit == RetryInit /\ RLIdle /\ TIdle /\ PIdle /\ FIdle

SpecRetry == SpecRetryInit /\ [][RetryNext]_vars

(***************************************************************************)
(* The seven connectors: class attributes and decorator arguments.         *)
(***************************************************************************)
ConnectorOrder ==
    <<"yfinance", "alpha_vantage", "finnhub", "twelve_data", "fmp", "polygon",
      "iex_cloud">>

Connectors == {ConnectorOrder[i] : i \in DOMAIN ConnectorOrder}

Credentialed == Connectors \ {"yfinance"}

Intervals == {"4h", "1d", "1w"}

SUPPORTED_INTERVALS(c) ==
    CASE c = "fmp" -> {"1m", "5m", "15m", "30m", "1h", "4h", "1d"}
      [] c = "iex_cloud" -> {"1d"}
      [] OTHER -> {"1m", "5m", "15m", "30m", "1h", "1d", "1w"}

RATE_LIMIT_REQUESTS(c) ==
    CASE c = "yfinance" -> 100
      [] c = "alpha_vantage" -> 5
      [] c = "finnhub" -> 60
      [] c = "twelve_data" -> 8
      [] c = "fmp" -> 5
      [] c = "polygon" -> 5
      [] c = "iex_cloud" -> 100

RATE_LIMIT_WINDOW(c) == 60

\* @retry_with_backoff(max_retries=3, base_delay=...), base_delay in ticks
DecoratorMaxRetries(c) == 3

DecoratorBaseDelay(c) == IF c \in {"yfinance", "finnhub"} THEN 10 ELSE 20

(***************************************************************************)
(* Response parsing: the loop of each fetch_ohlcv that turns the bars of   *)
(* a response into OHLCVData records.                                      *)
(*                                                                         *)
(* A bar carries the time it stands for, <<day, slot>> (slot 0 is          *)
(* midnight or a date without a time, slot 1 a time within the day), and   *)
(* the state of its price fields: "ok", "missing" (a field absent),        *)
(* "unparseable" (a field float() rejects with ValueError) or "wrongtype"  *)
(* (a null field: float(None) is a TypeError). Its close is 1 and adj is   *)
(* the adjusted close the response carries for it: 2, or 0 when the        *)
(* response carries none.                                                  *)
(***************************************************************************)
Days == 0..2

Slots == 0..1

BadKinds == {"ok", "missing", "unparseable", "wrongtype"}

Bars == [day : Days, slot : Slots, bad : BadKinds, adj : {0, 2}]

\* adj_close: Optional[float] = None
None == -1

Today == 2

TsLess(a, b) == a[1] < b[1] \/ (a[1] = b[1] /\ a[2] < b[2])

\* datetime.now() - timedelta(days=lookback_days)
LookbackCutoff(now, lookback) == <<now[1] - lookback, now[2]>>

\* The connectors that keep only the date of a bar: date_str.split()[0].
DateOnly(c) == c \in {"alpha_vantage", "fmp"}

\* The timestamp a connector gives a bar.
Timestamp(c, bar) == IF DateOnly(c) THEN <<bar.day, 0>> ELSE <<bar.day, bar.slot>>

\* The connectors whose loop drops bars older than the cutoff.
FiltersByCutoff(c) == c \in {"alpha_vantage", "twelve_data", "fmp"}

\* The connectors that end with result.sort(key=lambda x: x.timestamp).
SortsResult(c) == c \in {"alpha_vantage", "twelve_data", "fmp"}

\* The connectors whose loop body sits in try/except (KeyError, ValueError).
CatchesBarErrors(c) == c \in {"alpha_vantage", "twelve_data", "fmp", "polygon", "iex_cloud"}

\* The connectors that read the price fields with .get(name, 0).
DefaultsMissing(c) == c \in {"alpha_vantage", "fmp", "iex_cloud"}

\* What the loop body does with one bar: "keep" (a record is appended),
\* "skip" (continue) or "raise" (an exception leaves the loop). The cutoff
\* test comes before the fields are read; iex_cloud parses the date with
\* "%Y-%m-%d", which rejects a date that carries a time (ValueError).
BarOutcome(c, bar, cutoff) ==
    IF FiltersByCutoff(c) /\ TsLess(Timestamp(c, bar), cutoff) THEN "skip"
    ELSE IF c = "iex_cloud" /\ bar.slot # 0 THEN "skip"
    ELSE CASE bar.bad = "ok" -> "keep"
           [] bar.bad = "missing" ->
                IF DefaultsMissing(c) THEN "keep"
                ELSE IF CatchesBarErrors(c) THEN "skip" ELSE "raise"
           [] bar.bad = "unparseable" ->
                IF CatchesBarErrors(c) THEN "skip" ELSE "raise"
           [] bar.bad = "wrongtype" -> "raise"

\* The connectors that pass adj_close=... to OHLCVData.
ReadsAdjusted(c) == c \in {"yfinance", "alpha_vantage", "fmp", "iex_cloud"}

\* float(values.get("4. close", 0)): 0 when a missing field was defaulted.
PriceOf(bar) == IF bar.bad = "missing" THEN 0 ELSE 1

\* adj_close=float(item.get("adjClose", item.get("close", 0))), or the
\* dataclass default where the connector passes none.
AdjCloseOf(c, bar) ==
    IF ReadsAdjusted(c)
    THEN (IF bar.adj # 0 THEN bar.adj ELSE PriceOf(bar))
    ELSE None

\* OHLCVData(...)
Record(c, bar) ==
    [timestamp |-> Timestamp(c, bar),
     open |-> PriceOf(bar),
     close |-> PriceOf(bar),
     adj_close |-> AdjCloseOf(c, bar),
     source |-> c]

\* list.sort(key=timestamp) is stable: r goes after the records not later than it.
RECURSIVE InsertSorted(_, _)
InsertSorted(r, sorted) ==
    IF sorted = <<>> THEN <<r>>
    ELSE IF TsLess(r.timestamp, Head(sorted).timestamp) THEN <<r>> \o sorted
    ELSE <<Head(sorted)>> \o InsertSorted(r, Tail(sorted))

RECURSIVE SortByTimestamp(_)
SortByTimestamp(recs) ==
    IF recs = <<>> THEN <<>>
    ELSE InsertSorted(recs[Len(recs)], SortByTimestamp(SubSeq(recs, 1, Len(recs) - 1)))

RECURSIVE Collect(_, _, _)
Collect(c, bars, cutoff) ==
    IF bars = <<>> THEN <<>>
    ELSE IF BarOutcome(c, Head(bars), cutoff) = "keep"
         THEN <<Record(c, Head(bars))>> \o Collect(c, Tail(bars), cutoff)
         ELSE Collect(c, Tail(bars), cutoff)

\* The parsing loop and what follows it: a fault when a bar raises, else the
\* records of the kept bars, sorted where the connector sorts.
ParseBars(c, bars, cutoff) ==
    IF \E i \in DOMAIN bars : BarOutcome(c, bars[i], cutoff) = "raise"
    THEN [kind |-> "fault"]
    ELSE [kind |-> "ok",
          val |-> IF SortsResult(c) THEN SortByTimestamp(Collect(c, bars, cutoff))
                  ELSE Collect(c, bars, cutoff)]

RECURSIVE SeqsUpTo(_, _)
SeqsUpTo(S, n) ==
    IF n = 0 THEN {<<>>}
    ELSE SeqsUpTo(S, n - 1) \cup
         {Append(q, x) : q \in {q2 \in SeqsUpTo(S, n - 1) : Len(q2) = n - 1}, x \in S}

\* A response is a time series: its bars stand for pairwise distinct times,
\* in whatever order the upstream sends them.
DistinctTimes(bars) ==
    \A i, j \in DOMAIN bars :
        i # j => ~(bars[i].day = bars[j].day /\ bars[i].slot = bars[j].slot)

Payloads == {q \in SeqsUpTo(Bars, MaxBars) : DistinctTimes(q)}

ParseInit ==
    /\ pconn \in Connectors
    /\ pbars \in Payloads
    /\ plookback \in 1..2
    /\ pnow \in {<<Today, s>> : s \in Slots}
    /\ presult = [kind |-> "none"]

ParseResponse ==
    /\ presult.kind = "none"
    /\ presult' = ParseBars(pconn, pbars, LookbackCutoff(pnow, plookback))
    /\ UNCHANGED <<pconn, pbars, plookback, pnow, rlvars, wvars, op, tvars, fvars>>

ParseNext == ParseResponse

SpecParseInit == ParseInit /\ RLIdle /\ TIdle /\ WIdle /\ op = <<>> /\ FIdle

SpecParse == SpecParseInit /\ [][ParseNext]_vars

(***************************************************************************)
(* The process: module-level singletons, get_available_connectors and      *)
(* fetch_with_fallback driving the providers' fetch_ohlcv.                 *)
(***************************************************************************)
\* X_AVAILABLE = bool(os.getenv("X_API_KEY", "")); the singleton is None otherwise.
Available(c) == IF c = "yfinance" THEN YFINANCE_AVAILABLE ELSE env[c] # ""

\* api_key or os.getenv("X_API_KEY", ""): the argument unless it is empty
\* (or None, modelled as "").
ConstructKey(arg, envkey) == IF arg # "" THEN arg ELSE envkey

\* self.api_key
api_key(c) == api_keys[c]

\* A registry that lists yfinance whether or not its import succeeded.
get_available_connectors_always ==
    SelectSeq(ConnectorOrder, LAMBDA c : c = "yfinance" \/ Available(c))

get_available_connectors == SelectSeq(ConnectorOrder, LAMBDA c : Available(c))

\* A provider whose interval is never checked.
Supports_any(c, i) == TRUE

\* if interval in connector.SUPPORTED_INTERVALS
Supports(c, i) == i \in SUPPORTED_INTERVALS(c)

\* A loop that does not return on data and moves on to the next connector.
StopsAt_never(data) == FALSE

\* if data: ... return data
StopsAt(data) == data # <<>>

\* A handler that lets the fault through.
Caught_none == FALSE

\* except Exception as e: ... continue
Caught == TRUE

\* What one outbound request can come back with.
RespKinds(c) ==
    IF c = "yfinance" THEN {"fault", "empty", "bars"}
    ELSE {"fault", "status", "unparseable", "nokey", "empty", "bars"}

B(d, s, bad) == [day |-> d, slot |-> s, bad |-> bad, adj |-> 0]

RespPayloads ==
    {<<B(2, 0, "ok")>>, <<B(2, 1, "ok"), B(1, 0, "ok")>>, <<B(0, 0, "ok")>>,
     <<B(2, 0, "wrongtype")>>}

Responses(c) ==
    {[kind |-> k, bars |-> <<>>] : k \in RespKinds(c) \ {"bars"}}
        \cup {[kind |-> "bars", bars |-> b] : b \in RespPayloads}

Ok(v) == [kind |-> "ok", val |-> v]

Fault == [kind |-> "fault"]

\* The body of fetch_ohlcv after the rate limiter gate, given the response:
\*   fault        requests.get (or yfinance) raised
\*   status       resp.status_code != 200
\*   unparseable  resp.json() raised
\*   nokey        a JSON object without the expected key (an error message)
\*   empty        the expected container, with no bars
\*   bars         a series of bars
BodyOutcome(c, resp, cutoff) ==
    CASE resp.kind = "fault" -> Fault
      [] resp.kind = "status" -> Ok(<<>>)
      [] resp.kind = "unparseable" -> Fault
      [] resp.kind = "nokey" -> IF c = "iex_cloud" THEN Fault ELSE Ok(<<>>)
      [] resp.kind = "empty" -> Ok(<<>>)
      [] resp.kind = "bars" -> ParseBars(c, resp.bars, cutoff)

\* A body without the api_key check.
HasKey_any(c) == TRUE

\* if not self.api_key: return []
HasKey(c) == c \notin Credentialed \/ api_key(c) # ""

Configured == {c \in Connectors : Available(c)}

ProcInit ==
    /\ YFINANCE_AVAILABLE \in BOOLEAN
    /\ env \in [Credentialed -> {"", "key"}]
    /\ Cardinality(Configured) <= MaxConfigured
    /\ limiters = [c \in Connectors |-> [k \in Keys |-> <<>>]]
    /\ requests = [c \in Connectors |-> 0]
    /\ ticker = "AAPL"
    /\ interval \in Intervals
    /\ fpc = "boot"
    /\ connectors = <<>>
    /\ idx = 0
    /\ result = <<>>
    /\ escaped = FALSE
    /\ outcomes = <<>>
    /\ invoked = <<>>
    /\ lastResp = "none"
    /\ tfaults = 0
    /\ api_keys = [c \in Credentialed |-> ConstructKey("", env[c])]
    /\ listing = <<>>
    /\ InstIdle
    /\ pconn = ""
    /\ pbars = <<>>
    /\ plookback = 1
    /\ pnow = <<Today, 1>>
    /\ presult = [kind |-> "none"]

rlrest == <<requests_per_window, window_seconds, request_times, released,
            lastCall, ncalls, gapped>>

\* main: connectors = get_available_connectors(), before it fetches.
MainList ==
    /\ fpc = "boot"
    /\ listing' = get_available_connectors
    /\ fpc' = "idle"
    /\ UNCHANGED <<YFINANCE_AVAILABLE, env, limiters, requests, ticker, interval,
                   connectors, idx, result, escaped, outcomes, invoked, lastResp,
                   tfaults>>
    /\ UNCHANGED <<api_keys, inst, fetches, gated, gates, sent, hist0, clock0, avail>>
    /\ UNCHANGED <<rlvars, wvars, op, tvars, pvars>>

\* connectors = get_available_connectors()
FStart ==
    /\ fpc = "idle"
    /\ connectors' = get_available_connectors
    /\ idx' = 1
    /\ fpc' = "iter"
    /\ UNCHANGED <<YFINANCE_AVAILABLE, env, limiters, requests, ticker, interval,
                   result, escaped, outcomes, invoked, lastResp, tfaults>>
    /\ UNCHANGED <<rlvars, wvars, op, tvars, ivars, pvars>>

\* The loop reaches a connector that supports the interval and calls its
\* decorated fetch_ohlcv.
FInvoke ==
    /\ fpc = "iter"
    /\ idx <= Len(connectors)
    /\ Supports(connectors[idx], interval)
    /\ invoked' = Append(invoked, connectors[idx])
    /\ max_retries' = DecoratorMaxRetries(connectors[idx])
    /\ base_delay' = DecoratorBaseDelay(connectors[idx])
    /\ attempt' = 0
    /\ wpc' = "start"
    /\ calls' = 0
    /\ delays' = <<>>
    /\ wresult' = <<>>
    /\ wraised' = 0
    /\ lastResp' = "none"
    /\ tfaults' = 0
    /\ fpc' = "fetching"
    /\ UNCHANGED <<YFINANCE_AVAILABLE, env, limiters, requests, ticker, interval,
                   connectors, idx, result, escaped, outcomes>>
    /\ UNCHANGED <<rlvars, op, tvars, ivars, pvars>>

\* The loop passes over a connector that does not support the interval.
FSkip ==
    /\ fpc = "iter"
    /\ idx <= Len(connectors)
    /\ ~Supports(connectors[idx], interval)
    /\ outcomes' = Append(outcomes, [kind |-> "skipped"])
    /\ idx' = idx + 1
    /\ UNCHANGED <<YFINANCE_AVAILABLE, env, limiters, requests, ticker, interval,
                   fpc, connectors, result, escaped, invoked, lastResp, tfaults>>
    /\ UNCHANGED <<rlvars, wvars, op, tvars, ivars, pvars>>

FEnter ==
    /\ fpc = "fetching"
    /\ WrapperEnter
    /\ UNCHANGED <<rlvars, op, tvars, pvars, fvars>>

\* One attempt of fetch_ohlcv: the key check, the rate limiter gate, the
\* outbound request answered by resp, the parsing, and the wrapper's handling
\* of how the body ended (a backoff sleep included).
FAttempt(resp) ==
    LET c == connectors[idx]
        now == clock
        cutoff == Cutoff(now, WindowTicks(RATE_LIMIT_WINDOW(c)))
        kept == Purge(limiters[c][ticker], cutoff)
        d == Blocked(kept, cutoff, RATE_LIMIT_REQUESTS(c), 0)
    IN  /\ fpc = "fetching"
        /\ wpc = "call"
        /\ resp \in Responses(c)
        /\ IF HasKey(c)
           THEN /\ WrapperAttempt(BodyOutcome(c, resp, LookbackCutoff(pnow, plookback)))
                /\ limiters' = [limiters EXCEPT ![c][ticker] = RecordRequest(kept, now)]
                /\ requests' = [requests EXCEPT ![c] = @ + 1]
                /\ clock' = clock + d + (SumSeq(delays') - SumSeq(delays))
                /\ lastResp' = resp.kind
                /\ tfaults' = tfaults + (IF resp.kind = "fault" THEN 1 ELSE 0)
           ELSE /\ WrapperAttempt(Ok(<<>>))
                /\ UNCHANGED <<limiters, requests, clock, lastResp, tfaults>>
        /\ UNCHANGED <<YFINANCE_AVAILABLE, env, ticker, interval, fpc, connectors,
                       idx, result, escaped, outcomes, invoked>>
        /\ UNCHANGED <<rlrest, op, tvars, ivars, pvars>>

\* fetch_ohlcv returned: `if data: return data`, else the next connector.
FReturn ==
    /\ fpc = "fetching"
    /\ wpc = "returned"
    /\ outcomes' = Append(outcomes, [kind |-> "returned", val |-> wresult])
    /\ IF StopsAt(wresult)
       THEN result' = wresult /\ fpc' = "done" /\ idx' = idx
       ELSE result' = result /\ fpc' = "iter" /\ idx' = idx + 1
    /\ wpc' = "idle"
    /\ UNCHANGED <<max_retries, base_delay, attempt, calls, delays, wresult, wraised>>
    /\ UNCHANGED <<YFINANCE_AVAILABLE, env, limiters, requests, ticker, interval,
                   connectors, escaped, invoked, lastResp, tfaults>>
    /\ UNCHANGED <<rlvars, op, tvars, ivars, pvars>>

\* fetch_ohlcv raised: `except Exception` logs and continues.
FExcept ==
    /\ fpc = "fetching"
    /\ wpc = "raised"
    /\ outcomes' = Append(outcomes, [kind |-> "raised"])
    /\ IF Caught
       THEN escaped' = escaped /\ fpc' = "iter" /\ idx' = idx + 1
       ELSE escaped' = TRUE /\ fpc' = "done" /\ idx' = idx
    /\ wpc' = "idle"
    /\ UNCHANGED <<max_retries, base_delay, attempt, calls, delays, wresult, wraised>>
    /\ UNCHANGED <<YFINANCE_AVAILABLE, env, limiters, requests, ticker, interval,
                   connectors, result, invoked, lastResp, tfaults>>
    /\ UNCHANGED <<rlvars, op, tvars, ivars, pvars>>

\* The loop ran out of connectors: `return []`.
FExhausted ==
    /\ fpc = "iter"
    /\ idx > Len(connectors)
    /\ result' = <<>>
    /\ fpc' = "done"
    /\ UNCHANGED <<YFINANCE_AVAILABLE, env, limiters, requests, ticker, interval,
                   connectors, idx, escaped, outcomes, invoked, lastResp, tfaults>>
    /\ UNCHANGED <<rlvars, wvars, op, tvars, ivars, pvars>>

Next ==
    \/ MainList
    \/ FStart
    \/ FInvoke
    \/ FSkip
    \/ FEnter
    \/ \E resp \in Responses("alpha_vantage") : FAttempt(resp)
    \/ FReturn
    \/ FExcept
    \/ FExhausted

Init == ProcInit /\ RLIdle /\ TIdle /\ WIdle /\ op = <<>>

Spec == Init /\ [][Next]_vars

\* The call runs in one thread, and every outbound request returns or times
\* out (timeout=30) and every sleep ends: a step that can be taken is taken.
LiveInit == Init /\ Cardinality(Configured) <= MaxLiveConfigured

SpecLive == LiveInit /\ [][Next]_vars /\ WF_vars(Next)

(***************************************************************************)
(* SpecInst: one connector instance, constructed by the caller with or     *)
(* without an api_key argument, and used directly: is_available(), calls   *)
(* of its rate limiter, and fetch_ohlcv calls one after the other. Here    *)
(* an attempt of fetch_ohlcv takes two steps, the rate limiter gate and    *)
(* the outbound request with all that follows it.                          *)
(***************************************************************************)

\* DataConnector.is_available, which no connector overrides.
is_available(c) == TRUE

\* A body whose retried attempts go straight to the request.
BodyStep_ungated(c, passed) ==
    IF ~HasKey(c) THEN "return" ELSE "request"

\* Where the body of fetch_ohlcv goes next: `if not self.api_key: return []`,
\* then self.rate_limiter.wait_if_needed(ticker), then the request.
BodyStep(c, passed) ==
    IF ~HasKey(c) THEN "return"
    ELSE IF passed THEN "request" ELSE "gate"

InstInit ==
    /\ inst \in Connectors
    /\ YFINANCE_AVAILABLE = TRUE
    /\ \E e \in {"", "key"}, arg \in {"", "arg"} :
          /\ env = [c \in Credentialed |-> IF c = inst THEN e ELSE ""]
          /\ api_keys = [c \in Credentialed |->
                            IF c = inst THEN ConstructKey(arg, e) ELSE ""]
    /\ limiters = [c \in Connectors |-> [k \in Keys |-> <<>>]]
    /\ requests = [c \in Connectors |-> 0]
    /\ ticker = ""
    /\ interval = "1d"
    /\ fpc = "direct"
    /\ connectors = <<>>
    /\ idx = 0
    /\ result = <<>>
    /\ escaped = FALSE
    /\ outcomes = <<>>
    /\ invoked = <<>>
    /\ lastResp = "none"
    /\ tfaults = 0
    /\ listing = <<>>
    /\ fetches = 0
    /\ gated = FALSE
    /\ gates = 0
    /\ sent = 0
    /\ hist0 = <<>>
    /\ clock0 = 0
    /\ avail = {}
    /\ pconn = ""
    /\ pbars = <<>>
    /\ plookback = 1
    /\ pnow = <<Today, 1>>
    /\ presult = [kind |-> "none"]

\* What the steps of the instance leave alone.
InstFrame ==
    /\ UNCHANGED <<YFINANCE_AVAILABLE, env, interval, fpc, connectors, idx, result,
                   escaped, outcomes, invoked, api_keys, listing, inst>>
    /\ UNCHANGED <<rlrest, op, tvars, pvars>>

\* connector.is_available(), called before the first fetch.
IAvailable ==
    /\ fpc = "direct"
    /\ wpc = "idle"
    /\ fetches = 0
    /\ avail = {}
    /\ avail' = {is_available(inst)}
    /\ UNCHANGED <<limiters, requests, ticker, lastResp, tfaults, fetches, gated,
                   gates, sent, hist0, clock0, clock>>
    /\ UNCHANGED wvars
    /\ InstFrame

\* connector.rate_limiter.wait_if_needed(k), called by the user before the
\* first fetch.
IWait(k) ==
    LET c == inst
        now == clock
        cutoff == Cutoff(now, WindowTicks(RATE_LIMIT_WINDOW(c)))
        kept == Purge(limiters[c][k], cutoff)
        d == Blocked(kept, cutoff, RATE_LIMIT_REQUESTS(c), 0)
    IN  /\ fpc = "direct"
        /\ wpc = "idle"
        /\ fetches = 0
        /\ limiters[c][k] = <<>>
        /\ limiters' = [limiters EXCEPT ![c][k] = RecordRequest(kept, now)]
        /\ clock' = clock + d
        /\ UNCHANGED <<requests, ticker, lastResp, tfaults, fetches, gated, gates,
                       sent, hist0, clock0, avail>>
        /\ UNCHANGED wvars
        /\ InstFrame

\* connector.fetch_ohlcv(k, ...): the decorated function is entered.
ICall(k) ==
    /\ fpc = "direct"
    /\ wpc = "idle"
    /\ fetches < MaxFetches
    /\ fetches' = fetches + 1
    /\ ticker' = k
    /\ max_retries' = DecoratorMaxRetries(inst)
    /\ base_delay' = DecoratorBaseDelay(inst)
    /\ attempt' = 0
    /\ wpc' = "start"
    /\ calls' = 0
    /\ delays' = <<>>
    /\ wresult' = <<>>
    /\ wraised' = 0
    /\ gated' = FALSE
    /\ gates' = 0
    /\ sent' = 0
    /\ hist0' = limiters[inst][k]
    /\ clock0' = clock
    /\ UNCHANGED <<limiters, requests, lastResp, tfaults, avail, clock>>
    /\ InstFrame

IEnter ==
    /\ fpc = "direct"
    /\ WrapperEnter
    /\ UNCHANGED <<rlvars, op, tvars, pvars, fvars>>

\* if not self.api_key: return []
INoKey ==
    /\ fpc = "direct"
    /\ wpc = "call"
    /\ BodyStep(inst, gated) = "return"
    /\ WrapperAttempt(Ok(<<>>))
    /\ UNCHANGED <<limiters, requests, ticker, lastResp, tfaults, fetches, gated,
                   gates, sent, hist0, clock0, avail, clock>>
    /\ InstFrame

\* self.rate_limiter.wait_if_needed(ticker)
IGate ==
    LET c == inst
        now == clock
        cutoff == Cutoff(now, WindowTicks(RATE_LIMIT_WINDOW(c)))
        kept == Purge(limiters[c][ticker], cutoff)
        d == Blocked(kept, cutoff, RATE_LIMIT_REQUESTS(c), 0)
    IN  /\ fpc = "direct"
        /\ wpc = "call"
        /\ BodyStep(c, gated) = "gate"
        /\ limiters' = [limiters EXCEPT ![c][ticker] = RecordRequest(kept, now)]
        /\ clock' = clock + d
        /\ gated' = TRUE
        /\ gates' = gates + 1
        /\ UNCHANGED <<requests, ticker, lastResp, tfaults, fetches, sent, hist0,
                       clock0, avail>>
        /\ UNCHANGED wvars
        /\ InstFrame

\* The outbound request answered by resp, the parsing, and the wrapper's
\* handling of how the body ended (a backoff sleep included).
IRequest(resp) ==
    /\ fpc = "direct"
    /\ wpc = "call"
    /\ BodyStep(inst, gated) = "request"
    /\ resp \in Responses(inst)
    /\ WrapperAttempt(BodyOutcome(inst, resp, LookbackCutoff(pnow, plookback)))
    /\ requests' = [requests EXCEPT ![inst] = @ + 1]
    /\ sent' = sent + 1
    /\ gated' = FALSE
    /\ clock' = clock + (SumSeq(delays') - SumSeq(delays))
    /\ UNCHANGED <<limiters, ticker, lastResp, tfaults, fetches, gates, hist0,
                   clock0, avail>>
    /\ InstFrame

\* fetch_ohlcv is over: it returned, or its last fault went to the caller.
IFinish ==
    /\ fpc = "direct"
    /\ wpc \in {"returned", "raised"}
    /\ wpc' = "idle"
    /\ UNCHANGED <<max_retries, base_delay, attempt, calls, delays, wresult, wraised>>
    /\ UNCHANGED <<limiters, requests, ticker, lastResp, tfaults, fetches, gated,
                   gates, sent, hist0, clock0, avail, clock>>
    /\ InstFrame

InstNext ==
    \/ IAvailable
    \/ \E k \in Keys : IWait(k)
    \/ \E k \in Keys : ICall(k)
    \/ IEnter
    \/ INoKey
    \/ IGate
    \/ \E resp \in Responses("alpha_vantage") : IRequest(resp)
    \/ IFinish

SpecInstInit == InstInit /\ RLIdle /\ TIdle /\ WIdle /\ op = <<>>

SpecInst == SpecInstInit /\ [][InstNext]_vars

(***************************************************************************)
(* Properties of fetch_with_fallback and of the providers' fetch_ohlcv.    *)
(***************************************************************************)
\* The positions whose fetch_ohlcv returned a non-empty list.
NonEmptyAt ==
    {i \in DOMAIN outcomes : outcomes[i].kind = "returned" /\ outcomes[i].val # <<>>}

SupportingPrefix(n) ==
    SelectSeq(SubSeq(connectors, 1, n), LAMBDA c : interval \in SUPPORTED_INTERVALS(c))

\* C1: the call returns exactly what the first connector (in registry order)
\* that supports the interval and returned a non-empty list returned; the
\* connectors before it were passed over, none of their faults reached the
\* caller, and no connector after it was visited or sent a request.
C1_FirstNonEmptyWins ==
    (fpc = "done" /\ NonEmptyAt # {}) =>
        \E w \in NonEmptyAt :
            /\ \A i \in NonEmptyAt : w <= i
            /\ result = outcomes[w].val
            /\ \A k \in DOMAIN result : result[k].source = connectors[w]
            /\ interval \in SUPPORTED_INTERVALS(connectors[w])
            /\ Len(outcomes) = w
            /\ invoked = SupportingPrefix(w)
            /\ \A j \in (w + 1)..Len(connectors) : requests[connectors[j]] = 0
            /\ ~escaped

\* C1 witness: of three connectors the first raised, the second returned
\* data, which is the result, and the third was never visited.
C1_Witness ==
    /\ fpc = "done"
    /\ Len(connectors) = 3
    /\ Len(outcomes) = 2
    /\ outcomes[1].kind = "raised"
    /\ outcomes[2].kind = "returned"
    /\ Len(result) = 2
    /\ result = outcomes[2].val
    /\ requests[connectors[3]] = 0

\* C2: when no connector returned a non-empty list (each was skipped, raised
\* or returned empty; the registry may be empty), the call returns the empty
\* list, having visited every connector, and no exception leaves it.
C2_AllFailingReturnsEmpty ==
    (fpc = "done" /\ NonEmptyAt = {}) =>
        /\ result = <<>>
        /\ ~escaped
        /\ Len(outcomes) = Len(connectors)

\* C2 witness: three connectors, one raised and one returned empty, and the
\* call ended with the empty list.
C2_Witness ==
    /\ fpc = "done"
    /\ Len(connectors) = 3
    /\ \E i \in DOMAIN outcomes : outcomes[i].kind = "raised"
    /\ \E i \in DOMAIN outcomes : outcomes[i].kind = "returned"
    /\ NonEmptyAt = {}
    /\ result = <<>>

\* C4: a connector that does not support the requested interval is never
\* invoked: it sends no request, its rate limiter state is untouched, and
\* the loop has moved past it.
C4_UnsupportedNeverInvoked ==
    /\ \A c \in Connectors :
          interval \notin SUPPORTED_INTERVALS(c) =>
              /\ \A i \in DOMAIN invoked : invoked[i] # c
              /\ requests[c] = 0
              /\ limiters[c] = [k \in Keys |-> <<>>]
    /\ \A i \in DOMAIN outcomes :
          interval \notin SUPPORTED_INTERVALS(connectors[i]) =>
              outcomes[i].kind = "skipped" /\ idx > i

\* C4 witness: the first connector was skipped for the interval and the
\* next one was invoked and returned data.
C4_Witness ==
    /\ fpc = "done"
    /\ Len(outcomes) = 2
    /\ interval \notin SUPPORTED_INTERVALS(connectors[1])
    /\ outcomes[1].kind = "skipped"
    /\ invoked = <<connectors[2]>>
    /\ result # <<>>

\* C8: in a credentialed connector's fetch_ohlcv, a response with a
\* non-success status or an unparseable, key-less or empty payload ends the
\* call with the empty list: only the transport faults before it were
\* retried (one request and no backoff sleep when it is the first response).
C8_NonSuccessNotRetried ==
    (fpc = "fetching" /\ lastResp \in {"status", "unparseable", "nokey", "empty"}
        /\ connectors[idx] \in Credentialed) =>
        /\ wpc = "returned"
        /\ wresult = <<>>
        /\ requests[connectors[idx]] = tfaults + 1
        /\ Len(delays) = tfaults

\* The order the registry is documented to list the providers in.
FixedOrder ==
    <<"yfinance", "alpha_vantage", "finnhub", "twelve_data", "fmp", "polygon",
      "iex_cloud">>

RankOf(c) == CHOOSE i \in DOMAIN FixedOrder : FixedOrder[i] = c

\* l holds exactly the providers of the set, each once, in the fixed order.
ListsExactly(l, set) ==
    /\ \A c \in Connectors : (c \in set) <=> (\E i \in DOMAIN l : l[i] = c)
    /\ \A i, j \in DOMAIN l : i < j => RankOf(l[i]) < RankOf(l[j])

PosOf(c) == CHOOSE i \in DOMAIN connectors : connectors[i] = c

\* The provider at position i of invoked is over with: it returned the empty
\* list, or it raised after all the attempts of its retry policy.
GaveUp(i) ==
    /\ PosOf(invoked[i]) \in DOMAIN outcomes
    /\ LET o == outcomes[PosOf(invoked[i])]
       IN  \/ o.kind = "returned" /\ o.val = <<>>
           \/ o.kind = "raised" /\ requests[invoked[i]] = DecoratorMaxRetries(invoked[i])

\* C17: within one fetch_with_fallback call the providers are invoked one at
\* a time in registry order, none twice, and a provider is invoked only
\* after each provider invoked before it has returned empty or has raised
\* after exhausting its attempts.
C17_OneAtATimeInRegistryOrder ==
    /\ \A i \in DOMAIN invoked : \E k \in DOMAIN connectors : connectors[k] = invoked[i]
    /\ \A i, j \in DOMAIN invoked : i < j => PosOf(invoked[i]) < PosOf(invoked[j])
    /\ \A i \in DOMAIN invoked : i < Len(invoked) => GaveUp(i)
    /\ fpc = "fetching" => invoked[Len(invoked)] = connectors[idx]

\* C17 witness: the third provider is being fetched after the first raised
\* and the second returned empty.
C17_Witness ==
    /\ fpc = "fetching"
    /\ wpc = "call"
    /\ Len(invoked) = 3
    /\ outcomes[PosOf(invoked[1])].kind = "raised"
    /\ outcomes[PosOf(invoked[2])].kind = "returned"

\* The outbound requests of the call so far, over all connectors.
TotalRequests == SumSeq([i \in DOMAIN ConnectorOrder |-> requests[ConnectorOrder[i]]])

\* C23: every call of fetch_with_fallback eventually returns, and it attempts
\* each provider's fetch at most 3 times, so at most 3 * p times in all over
\* a registry of p providers.
C23_ReturnsWithinAttemptBudget ==
    /\ <>(fpc = "done" /\ ~escaped)
    /\ [](/\ \A c \in Connectors : requests[c] <= 3
          /\ fpc = "fetching" => calls <= 3
          /\ fpc \notin {"boot", "idle"} => TotalRequests <= 3 * Len(connectors))

\* C23 witness: the call returned after two providers each used up their
\* three attempts.
C23_Witness ==
    /\ fpc = "done"
    /\ Len(connectors) = 2
    /\ TotalRequests = 6
    /\ \A i \in DOMAIN outcomes : outcomes[i].kind = "raised"

(***************************************************************************)
(* Properties of a connector instance in direct use.                       *)
(***************************************************************************)
RequiresCredential == inst \in Credentialed

KeyEmpty == api_keys[inst] = ""

\* C13: is_available() of a credential-requiring instance is true iff its
\* API key is non-empty; of the credential-free provider it is true.
C13_AvailableIffKey ==
    (fpc = "direct" /\ avail # {}) =>
        avail = {IF RequiresCredential THEN ~KeyEmpty ELSE TRUE}

\* A fetch_ohlcv call on the instance is over.
FetchOver == fpc = "direct" /\ fetches > 0 /\ wpc \in {"returned", "raised", "idle"}

History == limiters[inst][ticker]

\* C19: in a credentialed provider's fetch_ohlcv every attempt, retries
\* included, passes wait_if_needed for the ticker before its request: no
\* request is issued without the gate call of its attempt before it, and
\* after a fetch of a attempts a timestamps were recorded under the key.
C19_EveryAttemptGated ==
    (fpc = "direct" /\ fetches > 0 /\ RequiresCredential /\ ~KeyEmpty) =>
        /\ gates = sent + (IF gated THEN 1 ELSE 0)
        /\ sent = calls
        /\ gated => wpc = "call"
        /\ gates > 0 => (History # <<>> /\ History[Len(History)] >= clock0)
        /\ FetchOver => (gates = calls /\ calls >= 1)

\* C19 witness: a fetch of three attempts is over, each gated, and one of
\* its gate calls slept.
C19_Witness ==
    /\ FetchOver
    /\ RequiresCredential /\ ~KeyEmpty
    /\ calls = 3
    /\ gates = 3
    /\ sent = 3
    /\ clock - clock0 > SumSeq(delays)

\* C20: fetch_ohlcv on a credential-requiring instance whose API key is
\* empty returns the empty list: it does not raise, issues no request,
\* makes one attempt with no backoff sleep, takes no time in the limiter
\* and leaves the limiter's history as it was.
C20_EmptyKeyReturnsEmpty ==
    (fpc = "direct" /\ fetches > 0 /\ RequiresCredential /\ KeyEmpty) =>
        /\ wpc # "raised"
        /\ sent = 0 /\ requests[inst] = 0
        /\ gates = 0 /\ ~gated
        /\ delays = <<>>
        /\ History = hist0
        /\ clock = clock0
        /\ FetchOver => (wresult = <<>> /\ calls = 1 /\ wraised = 0)

\* C20 witness: such a fetch has returned, on a key whose history held a
\* timestamp.
C20_Witness ==
    /\ FetchOver
    /\ wpc = "returned"
    /\ RequiresCredential /\ KeyEmpty
    /\ hist0 # <<>>
    /\ calls = 1

(***************************************************************************)
(* Properties of retry_with_backoff.                                       *)
(***************************************************************************)
RECURSIVE GeomSum(_)
GeomSum(k) == IF k = 0 THEN 0 ELSE 2 ^ (k - 1) + GeomSum(k - 1)

WFinished == wpc \in {"returned", "raised"}

\* The wrapper has ended and every invocation of the operation faulted.
AllFaulted == WFinished /\ calls <= op.failures

\* C5 as stated: an operation that faults on every attempt is re-invoked
\* max_retries times after its initial attempt (max_retries + 1 invocations),
\* the delay before retry i being base_delay * 2^i.
C5_ReinvokedMaxRetriesTimes ==
    (AllFaulted /\ calls >= 1) =>
        /\ calls = max_retries + 1
        /\ Len(delays) = max_retries
        /\ \A i \in 0..(max_retries - 1) : delays[i + 1] = base_delay * (2 ^ i)

\* C5 amended: an operation that faults on every attempt is invoked
\* max_retries times in total (re-invoked max_retries - 1 times after its
\* initial attempt), the delay before retry i being base_delay * 2^i.
C5_InvokedMaxRetriesTimes ==
    AllFaulted =>
        /\ calls = max_retries
        /\ Len(delays) = (IF calls = 0 THEN 0 ELSE calls - 1)
        /\ \A i \in 0..(Len(delays) - 1) : delays[i + 1] = base_delay * (2 ^ i)

\* C5 witness: three attempts, all faulted, two backoff sleeps in between.
C5_Witness ==
    /\ AllFaulted
    /\ max_retries = 3
    /\ calls = 3
    /\ Len(delays) = 2

\* C6: an operation that faults k < max_retries times and then succeeds is
\* invoked exactly k + 1 times, its result is returned unchanged, and the
\* delays slept sum to base_delay * (2^0 + ... + 2^(k-1)).
C6_SucceedsAfterKFaults ==
    (WFinished /\ op.failures < max_retries) =>
        /\ wpc = "returned"
        /\ calls = op.failures + 1
        /\ wresult = op.value
        /\ SumSeq(delays) = base_delay * GeomSum(op.failures)

\* C6 witness: two faults, then a non-empty result on the third attempt.
C6_Witness ==
    /\ WFinished
    /\ op.failures = 2
    /\ max_retries = 3
    /\ calls = 3
    /\ wresult = <<"bar">>

\* C7: when every permitted attempt faulted, the wrapper ends by raising the
\* fault of the last attempt (no normal return), and it slept only between
\* attempts, never after the last one.
C7_ExhaustionRaises ==
    (AllFaulted /\ calls >= 1) =>
        /\ wpc = "raised"
        /\ wraised = calls
        /\ Len(delays) = calls - 1

\* C7 witness: the wrapper raised after three attempts that all faulted,
\* wrapping an operation that would otherwise return data.
C7_Witness ==
    /\ wpc = "raised"
    /\ calls = max_retries
    /\ max_retries = 3
    /\ op.value = <<"bar">>

(***************************************************************************)
(* Properties of response parsing.                                         *)
(***************************************************************************)
\* C9: the list fetch_ohlcv returns is sorted ascending by timestamp and
\* holds no two records with the same timestamp.
C9_SortedNoDuplicates ==
    presult.kind = "ok" =>
        \A i, j \in DOMAIN presult.val :
            i < j => TsLess(presult.val[i].timestamp, presult.val[j].timestamp)

PCutoff == LookbackCutoff(pnow, plookback)

\* The bars of the response that are well formed and that the connector
\* does not drop for their date.
WellFormedKept ==
    {i \in DOMAIN pbars :
        pbars[i].bad = "ok" /\ BarOutcome(pconn, pbars[i], PCutoff) = "keep"}

\* C11: malformed bars never make fetch_ohlcv raise; it returns normally,
\* with exactly the records of the well-formed bars (one record per
\* well-formed bar, none built from a malformed one).
C11_MalformedBarsSkipped ==
    presult.kind # "none" =>
        /\ presult.kind = "ok"
        /\ Len(presult.val) = Cardinality(WellFormedKept)
        /\ \A i \in DOMAIN presult.val : presult.val[i].open # 0

\* C12: a record built from a bar that carries no distinct adjusted close
\* has adj_close equal to its close, never None.
C12_AdjCloseDefaultsToClose ==
    presult.kind = "ok" =>
        \A i \in DOMAIN presult.val :
            (\A j \in DOMAIN pbars :
                Timestamp(pconn, pbars[j]) = presult.val[i].timestamp
                    => pbars[j].adj = 0)
            => (presult.val[i].adj_close = presult.val[i].close
                    /\ presult.val[i].adj_close # None)

\* C15: no returned record is older than now - lookback_days.
C15_NothingOlderThanLookback ==
    presult.kind = "ok" =>
        \A i \in DOMAIN presult.val : ~TsLess(presult.val[i].timestamp, PCutoff)

(***************************************************************************)
(* Properties of the RateLimiter.                                          *)
(***************************************************************************)
RLWindow == WindowTicks(window_seconds)

\* C3: under one key, no more than requests_per_window calls return within
\* any rolling window of window_seconds: of any N+1 consecutive releases the
\* first and the last are at least a full window apart.
C3_RollingWindowLimit ==
    \A k \in Keys : \A i \in DOMAIN released[k] :
        i + requests_per_window \in DOMAIN released[k] =>
            released[k][i + requests_per_window] - released[k][i] >= RLWindow

\* The entries recorded before the last call that were still inside the
\* window when that call started.
LastInWindow ==
    {i \in DOMAIN lastCall.before : lastCall.now - lastCall.before[i] < RLWindow}

LastOldest ==
    CHOOSE t \in {lastCall.before[i] : i \in LastInWindow} :
        \A i \in LastInWindow : t <= lastCall.before[i]

\* C10: a call that finds at least requests_per_window requests recorded
\* inside the window blocks for at least window - (now - oldest_timestamp).
C10_BlocksAtLeast ==
    (lastCall.key # "" /\ Cardinality(LastInWindow) >= requests_per_window) =>
        lastCall.blocked >= RLWindow - (lastCall.now - LastOldest)

\* C10 witness: a call found the key at its limit, after an older entry had
\* already left the window, and slept.
C10_Witness ==
    /\ lastCall.key # ""
    /\ Cardinality(LastInWindow) >= requests_per_window
    /\ Cardinality(LastInWindow) < Len(lastCall.before)
    /\ lastCall.blocked > 0

\* The timestamp the last call recorded.
LastRecorded ==
    request_times[lastCall.key][Len(request_times[lastCall.key])]

\* C16: a call that finds the key at its limit and sleeps records a
\* timestamp taken after the sleep, not earlier than the moment the oldest
\* surviving entry left the window.
C16_RecordedAfterSleep ==
    (lastCall.key # "" /\ Cardinality(LastInWindow) >= requests_per_window) =>
        LastRecorded >= LastOldest + RLWindow

\* No call of a thread is in progress.
Quiescent == \A t \in Threads : threads[t].pc \in {"idle", "done"}

\* The latest timestamp a completed call set out to record.
LatestDone ==
    CHOOSE m \in {tdone[i] : i \in DOMAIN tdone} : \A i \in DOMAIN tdone : tdone[i] <= m

\* The completed calls whose timestamp no call had a reason to purge.
DoneInWindow == {i \in DOMAIN tdone : tdone[i] > LatestDone - RLWindow}

\* Once the concurrent calls have returned, the timestamp of each is in the
\* history.
NoLostTimestamp ==
    (tdone # <<>> /\ Quiescent) =>
        Len(request_times[SharedKey]) >= Cardinality(DoneInWindow)

\* Of any N+1 consecutive returns under the key, the first and the last are
\* a full window apart.
ThreadsWithinLimit ==
    \A i \in DOMAIN released[SharedKey] :
        i + requests_per_window \in DOMAIN released[SharedKey] =>
            released[SharedKey][i + requests_per_window] - released[SharedKey][i]
                >= RLWindow

\* C18: two threads calling wait_if_needed with the same key, interleaved
\* arbitrarily, lose no timestamp (both are in the history once both have
\* returned) and together admit no more than requests_per_window requests
\* in one window.
C18_ConcurrentCallsSafe == NoLostTimestamp /\ ThreadsWithinLimit

\* The entries of key k that are inside the window at the current time.
InWindowNow(k) ==
    {i \in DOMAIN request_times[k] : clock - request_times[k][i] < RLWindow}

\* One wait_if_needed call, under the key lastCall'.key: the histories of the
\* other keys stay as they were, and the call sleeps only if its own key
\* was at the limit when it started.
CallTouchesOwnKeyOnly ==
    ncalls' = ncalls + 1 =>
        /\ \A k \in Keys \ {lastCall'.key} : request_times'[k] = request_times[k]
        /\ lastCall'.blocked > 0 =>
               Cardinality(InWindowNow(lastCall'.key)) >= requests_per_window

\* C21: wait_if_needed(key) reads and modifies only the history of that key:
\* the histories of the other keys are unchanged, and a key at its limit
\* never makes a call under another key sleep.
C21_OtherKeysUntouched == [][CallTouchesOwnKeyOnly]_vars

\* C21 witness: a call under one key returned without sleeping while the
\* other key held requests_per_window entries inside the window.
C21_Witness ==
    /\ lastCall.key = "TSLA"
    /\ lastCall.blocked = 0
    /\ Cardinality(InWindowNow("AAPL")) >= requests_per_window
    /\ request_times["TSLA"] = <<lastCall.now>>

Ascending(times) == \A i, j \in DOMAIN times : i < j => times[i] <= times[j]

\* C22: after every wait_if_needed call each key's history is in ascending
\* order and holds at most requests_per_window + 1 entries.
C22_AscendingAndBounded ==
    \A k \in Keys :
        /\ Ascending(request_times[k])
        /\ Len(request_times[k]) <= requests_per_window + 1

\* C22 witness: a call that slept left requests_per_window + 1 entries, and
\* the next call under the key purged some of them and recorded a later one.
C22_Witness ==
    /\ lastCall.key # ""
    /\ Len(lastCall.before) = requests_per_window + 1
    /\ Len(request_times[lastCall.key]) <= requests_per_window + 1
    /\ Cardinality(LastInWindow) < Len(lastCall.before)
    /\ LastRecorded > lastCall.before[Len(lastCall.before)]

====
